---- MODULE Spec2Model ----
(***************************************************************************)
(* A model of list.hpp: StackStorage<N> (a bump arena), StackAllocator     *)
(* (the adaptor over it) and List<T, StackAllocator<T, N>> (a doubly       *)
(* linked ring around an embedded sentinel).                               *)
(*                                                                         *)
(* Addresses are integers.  A payload node's address is its offset in the  *)
(* arena's buffer; the sentinels of the list objects have negative         *)
(* addresses.  mem holds every object whose lifetime has begun and not     *)
(* ended, so DOMAIN mem is the set of addresses that may be dereferenced.  *)
(***************************************************************************)
EXTENDS Integers, Sequences, FiniteSets, TLC

VARIABLES
  start_index_,   \* StackStorage::start_index_, the arena's cursor
  regions,        \* history: the regions the arena has returned, in order
  req,            \* history: the last direct call on the arena or its adaptor
  mem,            \* address -> [next, prev, value]: BaseNode / Node objects
  size_,          \* list object -> List::size_
  life,           \* list object -> "unborn", "alive" or "dead"
  deallocated,    \* history: address -> number of NodeAllocTraits::deallocate calls
  destroyed,      \* history: address -> number of NodeAllocTraits::destroy calls
  ub,             \* an operation dereferenced an object whose lifetime had ended
  last,           \* history: the last list operation and how it ended
  adaptors,       \* adaptor object -> its StackAllocator and how it was made
  frame           \* the insert or erase call in progress: its position and locals

vars == <<start_index_, regions, req, mem, size_, life, deallocated,
          destroyed, ub, last, adaptors, frame>>

(***************************************************************************)
(* Bounds and constants.                                                   *)
(***************************************************************************)
Width == 8                      \* size_t has Width bits
SizeT == 2 ^ Width
NodeSize == 24                  \* sizeof(Node) for T = int
NodeAlign == 8                  \* alignof(Node)
MaxNodes == 4
N == MaxNodes * NodeSize        \* the template parameter of StackStorage<N>
MaxCount == 2                   \* largest size given to a sized constructor
MaxRegions == 3                 \* direct allocate calls that succeed, per run
Values == {1, 2}                \* payloads handed to the list
DefaultValue == 0               \* the value of a value-initialised T
Lists == {"a", "b"}             \* the list objects of the program
Temp == "t"                     \* new_list, the local of operator=
Slots == Lists \cup {Temp}
NULL == -4
DANGLING == -5                  \* a pointer to an object whose lifetime ended

HeadOf(l) == CASE l = "a" -> -1 [] l = "b" -> -2 [] OTHER -> -3
Heads == {HeadOf(l) : l \in Slots}

(***************************************************************************)
(* StackStorage<N>::allocate, on the cursor.  size_t arithmetic wraps      *)
(* modulo SizeT.  ptr is the offset of the returned pointer from buffer_.  *)
(***************************************************************************)
ArenaAllocate(cursor, count, alignment) ==
  LET at_start == cursor
      s1 == (cursor + count) % SizeT
      s2 == (s1 + ((alignment - (s1 % alignment)) % alignment)) % SizeT
      at_end == s2
  IN IF at_end >= N
       THEN [ok |-> FALSE, cursor |-> at_start, ptr |-> NULL]
       ELSE [ok |-> TRUE, cursor |-> at_end,
             ptr |-> (at_end + SizeT - count) % SizeT]

\* StackAllocator<Node, N>::allocate(count)
AllocatorAllocate(cursor, count) ==
  ArenaAllocate(cursor, (count * NodeSize) % SizeT, NodeAlign)

(***************************************************************************)
(* The list operations, as functions on a world record w:                  *)
(*   cur, regs        the arena (start_index_, regions)                    *)
(*   mem, size        the objects and the size_ fields                     *)
(*   dealloc, destroy the deallocate / destroy calls made so far           *)
(*   ub               a dead object was dereferenced                       *)
(*   err              the exception in flight ("none" when there is none)  *)
(*   new, bad, cnt    nodes allocated by this operation, the node whose    *)
(*                    construction threw, the constructor's local count    *)
(***************************************************************************)
Fld(w, x, f) == IF x \in DOMAIN w.mem THEN w.mem[x][f] ELSE NULL

\* *x is read
Deref(w, x) == IF x \in DOMAIN w.mem THEN w ELSE [w EXCEPT !.ub = TRUE]

\* x->f = v
Wr(w, x, f, v) ==
  IF x \in DOMAIN w.mem THEN [w EXCEPT !.mem[x][f] = v] ELSE [w EXCEPT !.ub = TRUE]

Inc(cnt, x) == IF x \in DOMAIN cnt THEN [cnt EXCEPT ![x] = @ + 1] ELSE (x :> 1) @@ cnt

Count(cnt, x) == IF x \in DOMAIN cnt THEN cnt[x] ELSE 0

\* StackAllocator::deallocate does nothing to the arena; the call is recorded.
Deallocate(w, p) == [w EXCEPT !.dealloc = Inc(@, p)]

\* InsertHelper whose handler forgets to deallocate the node.
InsertHelperNoRelease(w, l, it, v, throws) ==
  LET r == AllocatorAllocate(w.cur, 1) IN
  IF ~r.ok
    THEN [w EXCEPT !.cur = r.cursor, !.err = "OutOfCapacity"]
    ELSE
      LET new_node == r.ptr
          w1 == [w EXCEPT !.cur = r.cursor,
                          !.regs = Append(@, [start |-> new_node, size |-> NodeSize,
                                              alignment |-> NodeAlign]),
                          !.new = @ \cup {new_node}]
      IN IF throws
           THEN [w1 EXCEPT !.err = "CtorError", !.bad = new_node]
           ELSE
             LET w2 == [w1 EXCEPT !.mem = (new_node :> [next |-> NULL, prev |-> NULL,
                                                        value |-> v]) @@ @]
                 prev == Fld(w2, it, "prev")
                 w3 == Wr(Wr(Deref(w2, it), new_node, "prev", prev), new_node, "next", it)
                 w4 == Wr(Wr(w3, it, "prev", new_node), prev, "next", new_node)
             IN [w4 EXCEPT !.size[l] = (@ + 1) % SizeT]

\* InsertHelper that links the new node after it instead of before it.
InsertHelperAfter(w, l, it, v, throws) ==
  LET r == AllocatorAllocate(w.cur, 1) IN
  IF ~r.ok
    THEN [w EXCEPT !.cur = r.cursor, !.err = "OutOfCapacity"]
    ELSE
      LET new_node == r.ptr
          w1 == [w EXCEPT !.cur = r.cursor,
                          !.regs = Append(@, [start |-> new_node, size |-> NodeSize,
                                              alignment |-> NodeAlign]),
                          !.new = @ \cup {new_node}]
      IN IF throws
           THEN [Deallocate(w1, new_node) EXCEPT !.err = "CtorError", !.bad = new_node]
           ELSE
             LET w2 == [w1 EXCEPT !.mem = (new_node :> [next |-> NULL, prev |-> NULL,
                                                        value |-> v]) @@ @]
                 w3 == Deref(w2, it)
                 prev == it
                 next == Fld(w3, it, "next")
                 w4 == Wr(w3, new_node, "prev", prev)
                 w5 == Wr(w4, new_node, "next", next)
                 w6 == Wr(w5, next, "prev", new_node)
                 w7 == Wr(w6, prev, "next", new_node)
             IN [w7 EXCEPT !.size[l] = (@ + 1) % SizeT]

\* List::InsertHelper(it, args...); throws: T's constructor throws.
InsertHelper(w, l, it, v, throws) ==
  LET r == AllocatorAllocate(w.cur, 1) IN
  IF ~r.ok
    THEN [w EXCEPT !.cur = r.cursor, !.err = "OutOfCapacity"]
    ELSE
      LET new_node == r.ptr
          w1 == [w EXCEPT !.cur = r.cursor,
                          !.regs = Append(@, [start |-> new_node, size |-> NodeSize,
                                              alignment |-> NodeAlign]),
                          !.new = @ \cup {new_node}]
      IN IF throws
           THEN [Deallocate(w1, new_node) EXCEPT !.err = "CtorError", !.bad = new_node]
           ELSE
             LET w2 == [w1 EXCEPT !.mem = (new_node :> [next |-> NULL, prev |-> NULL,
                                                        value |-> v]) @@ @]
                 w3 == Deref(w2, it)
                 prev == Fld(w3, it, "prev")
                 next == it
                 w4 == Wr(w3, new_node, "prev", prev)
                 w5 == Wr(w4, new_node, "next", next)
                 w6 == Wr(w5, next, "prev", new_node)
                 w7 == Wr(w6, prev, "next", new_node)
             IN [w7 EXCEPT !.size[l] = (@ + 1) % SizeT]

\* List::erase(it)
Erase(w, l, it) ==
  LET w0 == Deref(w, it)
      w1 == Wr(w0, Fld(w0, it, "next"), "prev", Fld(w0, it, "prev"))
      w2 == Wr(w1, Fld(w1, it, "prev"), "next", Fld(w1, it, "next"))
      w3 == [w2 EXCEPT !.destroy = Inc(@, it)]
      w4 == Deallocate(w3, it)
      \* a payload node's lifetime ends here; a sentinel is part of its list
      w5 == IF it \in Heads THEN w4
            ELSE [w4 EXCEPT !.mem = [x \in (DOMAIN @) \ {it} |-> @[x]]]
  IN [w5 EXCEPT !.size[l] = (@ + SizeT - 1) % SizeT]

\* List::pop_back(): erase(--end())
PopBackW(w, l) == Erase(w, l, Fld(w, HeadOf(l), "prev"))

\* List::pop_front(): erase(begin())
PopFrontW(w, l) == Erase(w, l, Fld(w, HeadOf(l), "next"))

\* List::Destroy(size)
RECURSIVE Destroy(_, _, _)
Destroy(w, l, size) ==
  IF size = 0 \/ w.ub THEN w ELSE Destroy(PopBackW(w, l), l, size - 1)

\* List(const Alloc&): head_ = BaseNode(&head_, &head_), size_{0}
ListCtor(w, l) ==
  [w EXCEPT !.mem = (HeadOf(l) :> [next |-> HeadOf(l), prev |-> HeadOf(l),
                                   value |-> DefaultValue]) @@ @,
            !.size[l] = 0]

\* The lifetime of list object l ends: its sentinel is gone, and the pointers
\* that still hold its address dangle.
EndLifetime(w, l) ==
  LET h == HeadOf(l)
      Fix(p) == IF p = h THEN DANGLING ELSE p
  IN [w EXCEPT !.mem = [x \in (DOMAIN @) \ {h} |->
                          [@[x] EXCEPT !.next = Fix(@), !.prev = Fix(@)]],
               !.size[l] = 0]

\* List::~List()
ListDtor(w, l) == EndLifetime(Destroy(w, l, w.size[l]), l)

\* The nodes a forward iteration from begin() to end() visits.
RECURSIVE Walk(_, _, _, _)
Walk(m, head, cur, fuel) ==
  IF cur = head \/ fuel = 0 \/ cur \notin DOMAIN m THEN <<>>
  ELSE <<cur>> \o Walk(m, head, m[cur].next, fuel - 1)

Fwd(m, l) ==
  IF HeadOf(l) \in DOMAIN m
    THEN Walk(m, HeadOf(l), m[HeadOf(l)].next, Cardinality(DOMAIN m))
    ELSE <<>>

\* The forward iteration comes back to end() through live nodes only.
FwdClosed(m, l) ==
  /\ HeadOf(l) \in DOMAIN m
  /\ LET s == Fwd(m, l)
         lastp == IF s = <<>> THEN HeadOf(l) ELSE s[Len(s)]
     IN m[lastp].next = HeadOf(l)

\* The nodes a reverse iteration from rbegin() to rend() visits:
\* reverse_iterator(end()) down to reverse_iterator(begin()).
RECURSIVE WalkBack(_, _, _, _)
WalkBack(m, stop, cur, fuel) ==
  IF cur = stop \/ fuel = 0 \/ cur \notin DOMAIN m THEN <<>>
  ELSE LET p == m[cur].prev IN <<p>> \o WalkBack(m, stop, p, fuel - 1)

Rev(m, l) ==
  IF HeadOf(l) \in DOMAIN m
    THEN WalkBack(m, m[HeadOf(l)].next, HeadOf(l), Cardinality(DOMAIN m))
    ELSE <<>>

ValuesAt(m, s) == [i \in 1..Len(s) |-> IF s[i] \in DOMAIN m THEN m[s[i]].value ELSE NULL]

\* The elements of l, front to back
Content(m, l) == ValuesAt(m, Fwd(m, l))

\* The loop of the sized constructors, of the copy constructor and of
\* operator=: one insert at end() per value; the failAt-th construction throws.
RECURSIVE FillLoop(_, _, _, _, _)
FillLoop(w, l, vals, failAt, i) ==
  IF i > Len(vals) THEN w
  ELSE LET w1 == InsertHelper(w, l, HeadOf(l), vals[i], failAt = i)
       IN IF w1.err # "none" \/ w1.ub THEN w1
          ELSE FillLoop([w1 EXCEPT !.cnt = i], l, vals, failAt, i + 1)

\* A sized constructor that lets the exception go without any rollback.
CtorFillNoRollback(w, l, vals, failAt) ==
  LET w1 == FillLoop(ListCtor(w, l), l, vals, failAt, 1)
  IN IF w1.err = "none" THEN w1 ELSE EndLifetime(w1, l)

\* List(size, alloc), List(size, value, alloc), List(const List&): the
\* delegated List(alloc), the loop, and on a throw the handler's
\* Destroy(count) followed by the destructor of the delegating constructor.
CtorFill(w, l, vals, failAt) ==
  LET w1 == FillLoop(ListCtor(w, l), l, vals, failAt, 1)
  IN IF w1.err = "none" THEN w1
     ELSE ListDtor(Destroy(w1, l, w1.cnt), l)

\* std::swap(x->f, y->f)
SwapFld(w, x, y, f) ==
  LET vx == Fld(w, x, f)
      vy == Fld(w, y, f)
  IN Wr(Wr(w, x, f, vy), y, f, vx)

\* List::Swap(other)
Swap(w, l, other) ==
  LET hl == HeadOf(l)
      ho == HeadOf(other)
      w1 == [w EXCEPT !.size[l] = w.size[other], !.size[other] = w.size[l]]
      w2 == [w1 EXCEPT !.mem[hl] = w1.mem[ho], !.mem[ho] = w1.mem[hl]]
      w3 == SwapFld(w2, Fld(w2, hl, "next"), Fld(w2, ho, "next"), "prev")
      w4 == SwapFld(w3, Fld(w3, hl, "prev"), Fld(w3, ho, "prev"), "next")
  IN w4

\* An operator= whose temporary is not destroyed when the copy loop throws.
AssignWNoUnwind(w, l, other, failAt) ==
  LET src == IF FwdClosed(w.mem, other) THEN w ELSE [w EXCEPT !.ub = TRUE]
      w1 == FillLoop(ListCtor(src, Temp), Temp, Content(w.mem, other), failAt, 1)
  IN IF w1.err # "none" \/ w1.ub THEN EndLifetime(w1, Temp)
     ELSE ListDtor(Swap(w1, l, Temp), Temp)

\* operator= that drops the copy instead of swapping it in.
AssignWNoSwap(w, l, other, failAt) ==
  LET src == IF FwdClosed(w.mem, other) THEN w ELSE [w EXCEPT !.ub = TRUE]
      w1 == FillLoop(ListCtor(src, Temp), Temp, Content(w.mem, other), failAt, 1)
  IN ListDtor(w1, Temp)

\* List::operator=(other): new_list, the copy loop, Swap, and the destructor
\* of new_list on either way out.
AssignW(w, l, other, failAt) ==
  LET src == IF FwdClosed(w.mem, other) THEN w ELSE [w EXCEPT !.ub = TRUE]
      w1 == FillLoop(ListCtor(src, Temp), Temp, Content(w.mem, other), failAt, 1)
  IN IF w1.err # "none" \/ w1.ub THEN ListDtor(w1, Temp)
     ELSE ListDtor(Swap(w1, l, Temp), Temp)

(***************************************************************************)
(* InsertHelper and erase, one statement at a time.  A frame holds the     *)
(* position in the running call (the source line of the next statement)    *)
(* and the call's arguments and locals.                                    *)
(***************************************************************************)
Idle == [pc |-> "idle", op |-> "none", l |-> "", it |-> NULL, v |-> DefaultValue,
         throws |-> FALSE, new_node |-> NULL, prev |-> NULL]

Done(f) == [f EXCEPT !.pc = "done"]

\* The next statement of InsertHelper(it, v); a world with err set has thrown.
InsertStep(w, f) ==
  CASE f.pc = "303" ->
         LET r == AllocatorAllocate(w.cur, 1) IN
         IF ~r.ok
           THEN [w |-> [w EXCEPT !.cur = r.cursor, !.err = "OutOfCapacity"], f |-> Done(f)]
           ELSE [w |-> [w EXCEPT !.cur = r.cursor,
                                 !.regs = Append(@, [start |-> r.ptr, size |-> NodeSize,
                                                     alignment |-> NodeAlign])],
                 f |-> [f EXCEPT !.pc = "305", !.new_node = r.ptr]]
    [] f.pc = "305" ->
         IF f.throws
           THEN [w |-> [Deallocate(w, f.new_node) EXCEPT !.err = "CtorError",
                                                         !.bad = f.new_node],
                 f |-> Done(f)]
           ELSE [w |-> [w EXCEPT !.mem = (f.new_node :> [next |-> NULL, prev |-> NULL,
                                                         value |-> f.v]) @@ @],
                 f |-> [f EXCEPT !.pc = "312"]]
    [] f.pc = "312" ->
         [w |-> Deref(w, f.it), f |-> [f EXCEPT !.pc = "314", !.prev = Fld(w, f.it, "prev")]]
    [] f.pc = "314" ->
         [w |-> Wr(w, f.new_node, "prev", f.prev), f |-> [f EXCEPT !.pc = "315"]]
    [] f.pc = "315" ->
         [w |-> Wr(w, f.new_node, "next", f.it), f |-> [f EXCEPT !.pc = "316"]]
    [] f.pc = "316" ->
         [w |-> Wr(w, f.it, "prev", f.new_node), f |-> [f EXCEPT !.pc = "317"]]
    [] f.pc = "317" ->
         [w |-> Wr(w, f.prev, "next", f.new_node), f |-> [f EXCEPT !.pc = "318"]]
    [] OTHER ->
         [w |-> [w EXCEPT !.size[f.l] = (@ + 1) % SizeT], f |-> Done(f)]

\* erase that destroys the payload first and rewires the neighbours afterwards.
EraseStepDestroyFirst(w, f) ==
  CASE f.pc = "282" ->
         [w |-> [Deref(w, f.it) EXCEPT !.destroy = Inc(@, f.it)],
          f |-> [f EXCEPT !.pc = "283"]]
    [] f.pc = "283" ->
         [w |-> Wr(w, Fld(w, f.it, "next"), "prev", Fld(w, f.it, "prev")),
          f |-> [f EXCEPT !.pc = "285"]]
    [] f.pc = "285" ->
         [w |-> Wr(w, Fld(w, f.it, "prev"), "next", Fld(w, f.it, "next")),
          f |-> [f EXCEPT !.pc = "286"]]
    [] f.pc = "286" ->
         LET w1 == Deallocate(w, f.it)
         IN [w |-> IF f.it \in Heads THEN w1
                   ELSE [w1 EXCEPT !.mem = [x \in (DOMAIN @) \ {f.it} |-> @[x]]],
             f |-> [f EXCEPT !.pc = "288"]]
    [] OTHER ->
         [w |-> [w EXCEPT !.size[f.l] = (@ + SizeT - 1) % SizeT], f |-> Done(f)]

\* The next statement of erase(it).  Between destroy and deallocate the node
\* is still storage that holds its links, with a payload that is gone.
EraseStep(w, f) ==
  CASE f.pc = "282" ->
         LET w0 == Deref(w, f.it)
         IN [w |-> Wr(w0, Fld(w0, f.it, "next"), "prev", Fld(w0, f.it, "prev")),
             f |-> [f EXCEPT !.pc = "283"]]
    [] f.pc = "283" ->
         [w |-> Wr(w, Fld(w, f.it, "prev"), "next", Fld(w, f.it, "next")),
          f |-> [f EXCEPT !.pc = "285"]]
    [] f.pc = "285" ->
         [w |-> [w EXCEPT !.destroy = Inc(@, f.it)], f |-> [f EXCEPT !.pc = "286"]]
    [] f.pc = "286" ->
         LET w1 == Deallocate(w, f.it)
         IN [w |-> IF f.it \in Heads THEN w1
                   ELSE [w1 EXCEPT !.mem = [x \in (DOMAIN @) \ {f.it} |-> @[x]]],
             f |-> [f EXCEPT !.pc = "288"]]
    [] OTHER ->
         [w |-> [w EXCEPT !.size[f.l] = (@ + SizeT - 1) % SizeT], f |-> Done(f)]

(***************************************************************************)
(* StackAllocator<T, N>: a pointer to the arena it was made over.          *)
(***************************************************************************)
Arenas == {"s1", "s2"}           \* the StackStorage<N> objects of the program
Types == {"int", "Node"}         \* the element types adaptors are made for
AdaptorNames == {"x", "y", "z"}  \* the adaptor objects of the program

\* StackAllocator(StackStorage<N>& stack_storage)
StackAllocatorOver(T, stack_storage) == [T |-> T, stack_storage_ |-> stack_storage]

\* A rebinding conversion that does not take the other adaptor's arena.
StackAllocatorFromDetached(T, stack_allocator) == [T |-> T, stack_storage_ |-> "nullptr"]

\* StackAllocator(const StackAllocator<U, N>& stack_allocator)
StackAllocatorFrom(T, stack_allocator) ==
  [T |-> T, stack_storage_ |-> stack_allocator.stack_storage_]

\* StackAllocator() = default: stack_storage_ is left uninitialized, garbage
\* is one of the values the pointer may turn out to hold
StackAllocatorDefault(T, garbage) == [T |-> T, stack_storage_ |-> garbage]

get_storage(a) == a.stack_storage_

\* a == b
AllocEq(a, b) == get_storage(a) = get_storage(b)

\* a != b
AllocNe(a, b) == get_storage(a) # get_storage(b)

\* No adaptor object yet; arena is the arena an adaptor was made over, directly
\* or through the adaptors it was converted from ("none" after the default
\* constructor), via the constructor that made it
NoAdaptor == [made |-> FALSE, obj |-> StackAllocatorDefault("int", "nullptr"),
              arena |-> "none", via |-> "none"]

(***************************************************************************)
(* The state machine.                                                      *)
(***************************************************************************)
NoReq == [called |-> FALSE, count |-> 0, alignment |-> 1, ok |-> FALSE,
          ptr |-> NULL, pre |-> 0, prevFailed |-> FALSE, prevCount |-> 0,
          via |-> "none", elems |-> 0]

NoOp == [op |-> "none", l |-> "", src |-> "", res |-> "ok", new |-> {}, bad |-> NULL]

Init ==
  /\ start_index_ = 0
  /\ regions = <<>>
  /\ req = NoReq
  /\ mem = <<>>
  /\ size_ = [l \in Slots |-> 0]
  /\ life = [l \in Lists |-> "unborn"]
  /\ deallocated = <<>>
  /\ destroyed = <<>>
  /\ ub = FALSE
  /\ last = NoOp
  /\ adaptors = [x \in AdaptorNames |-> NoAdaptor]
  /\ frame = Idle

\* The program's state, as the record the list operations work on
World ==
  [cur |-> start_index_, regs |-> regions, mem |-> mem, size |-> size_,
   dealloc |-> deallocated, destroy |-> destroyed, ub |-> FALSE, err |-> "none",
   new |-> {}, bad |-> NULL, cnt |-> 0]

Result(w) == IF w.ub THEN "ub" ELSE IF w.err = "none" THEN "ok" ELSE w.err

\* The state after an operation that ended in world w.  Once a dead object has
\* been dereferenced the program has no defined state: ub is set, nothing more
\* is said about the other variables, and no operation follows.
Commit(w, op, l, src, lf) ==
  IF w.ub
    THEN /\ ub' = TRUE
         /\ last' = [NoOp EXCEPT !.res = "ub"]
         /\ start_index_' = 0
         /\ regions' = <<>>
         /\ mem' = <<>>
         /\ size_' = [s \in Slots |-> 0]
         /\ life' = [s \in Lists |-> "dead"]
         /\ deallocated' = <<>>
         /\ destroyed' = <<>>
         /\ UNCHANGED <<req, adaptors, frame>>
    ELSE /\ ub' = FALSE
         /\ last' = [op |-> op, l |-> l, src |-> src, res |-> Result(w),
                     new |-> w.new, bad |-> w.bad]
         /\ start_index_' = w.cur
         /\ regions' = w.regs
         /\ mem' = w.mem
         /\ size_' = w.size
         /\ life' = lf
         /\ deallocated' = w.dealloc
         /\ destroyed' = w.destroy
         /\ UNCHANGED <<req, adaptors, frame>>

Born(l) == [life EXCEPT ![l] = "alive"]

Repeat(n, v) == [i \in 1..n |-> v]

\* The iterators of l a caller can hold: its elements' and end()
Positions(l) == {Fwd(mem, l)[i] : i \in 1..Len(Fwd(mem, l))} \cup {HeadOf(l)}

\* List<T, Alloc> l(alloc);
Construct(l) ==
  /\ ~ub /\ life[l] = "unborn"
  /\ Commit(ListCtor(World, l), "List", l, "", Born(l))

\* List<T, Alloc> l(n, alloc);
ConstructN(l, n, failAt) ==
  /\ ~ub /\ life[l] = "unborn" /\ failAt <= n
  /\ LET w == CtorFill(World, l, Repeat(n, DefaultValue), failAt)
     IN Commit(w, "List(n)", l, "", IF w.err = "none" THEN Born(l) ELSE life)

\* List<T, Alloc> l(n, value, alloc);
ConstructNV(l, n, v, failAt) ==
  /\ ~ub /\ life[l] = "unborn" /\ failAt <= n
  /\ LET w == CtorFill(World, l, Repeat(n, v), failAt)
     IN Commit(w, "List(n,v)", l, "", IF w.err = "none" THEN Born(l) ELSE life)

\* A copy constructor that takes over the other list's nodes instead of
\* building its own.
CopyConstructShallow(l, other, failAt) ==
  /\ ~ub /\ life[l] = "unborn" /\ life[other] = "alive"
  /\ failAt <= Len(Fwd(mem, other))
  /\ LET w0 == ListCtor(World, l)
         w1 == IF Fwd(mem, other) = <<>> THEN w0
               ELSE Wr(Wr(w0, HeadOf(l), "next", mem[HeadOf(other)].next),
                       HeadOf(l), "prev", mem[HeadOf(other)].prev)
         w == [w1 EXCEPT !.size[l] = size_[other]]
     IN Commit(w, "List(copy)", l, other, Born(l))

\* List<T, Alloc> l(other);
CopyConstruct(l, other, failAt) ==
  /\ ~ub /\ life[l] = "unborn" /\ life[other] = "alive"
  /\ failAt <= Len(Fwd(mem, other))
  /\ LET w0 == IF FwdClosed(mem, other) THEN World ELSE [World EXCEPT !.ub = TRUE]
         w == CtorFill(w0, l, Content(mem, other), failAt)
     IN Commit(w, "List(copy)", l, other, IF w.err = "none" THEN Born(l) ELSE life)

\* l.~List()
Destruct(l) ==
  /\ ~ub /\ life[l] = "alive"
  /\ Commit(ListDtor(World, l), "~List", l, "", [life EXCEPT ![l] = "dead"])

\* l.push_back(v)
PushBack(l, v, throws) ==
  /\ ~ub /\ life[l] = "alive"
  /\ Commit(InsertHelper(World, l, HeadOf(l), v, throws), "push_back", l, "", life)

\* l.push_front(v)
PushFront(l, v, throws) ==
  /\ ~ub /\ life[l] = "alive"
  /\ Commit(InsertHelper(World, l, mem[HeadOf(l)].next, v, throws), "push_front", l, "",
            life)

\* l.insert(it, v)
Insert(l, it, v, throws) ==
  /\ ~ub /\ life[l] = "alive"
  /\ it \in Positions(l)
  /\ Commit(InsertHelper(World, l, it, v, throws), "insert", l, "", life)

\* l.pop_back(), on a list that reports elements
PopBack(l) ==
  /\ ~ub /\ life[l] = "alive" /\ size_[l] # 0
  /\ Commit(PopBackW(World, l), "pop_back", l, "", life)

\* l.pop_front(), on a list that reports elements
PopFront(l) ==
  /\ ~ub /\ life[l] = "alive" /\ size_[l] # 0
  /\ Commit(PopFrontW(World, l), "pop_front", l, "", life)

\* l.erase(it), it an iterator to an element
EraseAt(l, it) ==
  /\ ~ub /\ life[l] = "alive"
  /\ it \in Positions(l) \ {HeadOf(l)}
  /\ Commit(Erase(World, l, it), "erase", l, "", life)

\* l = other;
Assign(l, other, failAt) ==
  /\ ~ub /\ life[l] = "alive" /\ life[other] = "alive"
  /\ failAt <= Len(Fwd(mem, other))
  /\ Commit(AssignW(World, l, other, failAt), "assign", l, other, life)

Next ==
  \/ \E l \in Lists : Construct(l)
  \/ \E l \in Lists, n \in 0..MaxCount, k \in 0..MaxCount : ConstructN(l, n, k)
  \/ \E l \in Lists, n \in 0..MaxCount, v \in Values, k \in 0..MaxCount :
       ConstructNV(l, n, v, k)
  \/ \E l \in Lists, o \in Lists, k \in 0..MaxNodes : CopyConstruct(l, o, k)
  \/ \E l \in Lists : Destruct(l)
  \/ \E l \in Lists, v \in Values, t \in BOOLEAN : PushBack(l, v, t)
  \/ \E l \in Lists, v \in Values, t \in BOOLEAN : PushFront(l, v, t)
  \/ \E l \in Lists, it \in DOMAIN mem, v \in Values, t \in BOOLEAN :
       Insert(l, it, v, t)
  \/ \E l \in Lists : PopBack(l)
  \/ \E l \in Lists : PopFront(l)
  \/ \E l \in Lists, it \in DOMAIN mem : EraseAt(l, it)
  \/ \E l \in Lists, o \in Lists, k \in 0..MaxNodes : Assign(l, o, k)

Spec == Init /\ [][Next]_vars

(***************************************************************************)
(* The arena alone: direct calls of StackStorage<N>::allocate.             *)
(***************************************************************************)
Alignments == {1, 4, 8}
Counts == {3, 8, NodeSize, N, N + 8, SizeT - 8}

\* storage.allocate(count, alignment)
Allocate(count, alignment) ==
  /\ Len(regions) < MaxRegions
  /\ LET r == ArenaAllocate(start_index_, count, alignment)
     IN /\ start_index_' = r.cursor
        /\ regions' = IF r.ok
                        THEN Append(regions, [start |-> r.ptr, size |-> count,
                                              alignment |-> alignment])
                        ELSE regions
        /\ req' = [called |-> TRUE, count |-> count, alignment |-> alignment,
                   ok |-> r.ok, ptr |-> r.ptr, pre |-> start_index_,
                   prevFailed |-> req.called /\ ~req.ok, prevCount |-> req.count,
                   via |-> "arena", elems |-> 0]
  /\ UNCHANGED <<mem, size_, life, deallocated, destroyed, ub, last, adaptors, frame>>

NextArena == \E count \in Counts, alignment \in Alignments : Allocate(count, alignment)

SpecArena == Init /\ [][NextArena]_vars

(***************************************************************************)
(* Parts of the list machine: one list and its element operations; two     *)
(* lists with copy assignment; the constructors.                           *)
(***************************************************************************)
ElementOps(l) ==
  \/ \E v \in Values, t \in BOOLEAN : PushBack(l, v, t)
  \/ \E v \in Values, t \in BOOLEAN : PushFront(l, v, t)
  \/ \E it \in DOMAIN mem, v \in Values, t \in BOOLEAN : Insert(l, it, v, t)
  \/ PopBack(l)
  \/ PopFront(l)
  \/ \E it \in DOMAIN mem : EraseAt(l, it)

NextInsert == Construct("a") \/ ElementOps("a") \/ Destruct("a")

SpecInsert == Init /\ [][NextInsert]_vars

EndOps(l) ==
  \/ \E v \in Values, t \in BOOLEAN : PushBack(l, v, t)
  \/ \E v \in Values, t \in BOOLEAN : PushFront(l, v, t)
  \/ PopBack(l)
  \/ PopFront(l)

NextAssign ==
  \/ \E l \in Lists : Construct(l) \/ EndOps(l)
  \/ \E l \in Lists, o \in Lists, k \in 0..MaxNodes : Assign(l, o, k)

SpecAssign == Init /\ [][NextAssign]_vars

NextCtor ==
  \/ \E l \in Lists : Construct(l)
  \/ \E l \in Lists, n \in 0..MaxCount, k \in 0..MaxCount : ConstructN(l, n, k)
  \/ \E l \in Lists, n \in 0..MaxCount, v \in Values, k \in 0..MaxCount :
       ConstructNV(l, n, v, k)
  \/ \E l \in Lists, o \in Lists, k \in 0..MaxNodes : CopyConstruct(l, o, k)
  \/ \E l \in Lists, v \in Values, t \in BOOLEAN : PushBack(l, v, t)
  \/ \E l \in Lists : Destruct(l)

SpecCtor == Init /\ [][NextCtor]_vars

\* Whole lifetimes: construction, copies, pushes and pops, assignment, destruction
NextLifetime ==
  \/ \E l \in Lists : Construct(l)
  \/ \E l \in Lists, o \in Lists, k \in 0..MaxNodes : CopyConstruct(l, o, k)
  \/ \E l \in Lists, v \in Values, t \in BOOLEAN : PushBack(l, v, t)
  \/ \E l \in Lists : PopFront(l)
  \/ \E l \in Lists, o \in Lists, k \in 0..MaxNodes : Assign(l, o, k)
  \/ \E l \in Lists : Destruct(l)

SpecLifetime == Init /\ [][NextLifetime]_vars

\* Two lists, one possibly a copy of the other, and every element operation;
\* T's copy constructor does not throw outside the copy constructor of List
Mutators(l) ==
  \/ \E v \in Values : PushBack(l, v, FALSE)
  \/ \E v \in Values : PushFront(l, v, FALSE)
  \/ \E it \in DOMAIN mem, v \in Values : Insert(l, it, v, FALSE)
  \/ PopBack(l)
  \/ PopFront(l)
  \/ \E it \in DOMAIN mem : EraseAt(l, it)

NextCopy ==
  \/ \E l \in Lists : Construct(l)
  \/ \E l \in Lists, o \in Lists, k \in 0..MaxNodes : CopyConstruct(l, o, k)
  \/ \E l \in Lists : Mutators(l)

SpecCopy == Init /\ [][NextCopy]_vars

(***************************************************************************)
(* The adaptor objects: made over an arena, converted from one another,    *)
(* default-constructed.                                                    *)
(***************************************************************************)
ListVars == <<start_index_, regions, req, mem, size_, life, deallocated,
              destroyed, ub, last>>

\* StackAllocator<T, N> x(s);
MakeOver(x, T, s) ==
  /\ adaptors' = [adaptors EXCEPT ![x] = [made |-> TRUE, obj |-> StackAllocatorOver(T, s),
                                          arena |-> s, via |-> "storage"]]
  /\ UNCHANGED <<ListVars, frame>>

\* StackAllocator<T, N> x(y);  the rebinding conversion, U the type of y
MakeFrom(x, T, y) ==
  /\ x # y /\ adaptors[y].made
  /\ adaptors' = [adaptors EXCEPT ![x] = [made |-> TRUE,
                                          obj |-> StackAllocatorFrom(T, adaptors[y].obj),
                                          arena |-> adaptors[y].arena,
                                          via |-> "conversion"]]
  /\ UNCHANGED <<ListVars, frame>>

\* StackAllocator<T, N> x;
MakeDefault(x, T, garbage) ==
  /\ adaptors' = [adaptors EXCEPT ![x] = [made |-> TRUE,
                                          obj |-> StackAllocatorDefault(T, garbage),
                                          arena |-> "none", via |-> "default"]]
  /\ UNCHANGED <<ListVars, frame>>

NextAdaptors ==
  \/ \E x \in AdaptorNames, T \in Types, s \in Arenas : MakeOver(x, T, s)
  \/ \E x \in AdaptorNames, T \in Types, y \in AdaptorNames : MakeFrom(x, T, y)
  \/ \E x \in AdaptorNames, T \in Types, g \in Arenas \cup {"nullptr"} :
       MakeDefault(x, T, g)

SpecAdaptors == Init /\ [][NextAdaptors]_vars

(***************************************************************************)
(* One list whose inserts and erases run statement by statement.           *)
(***************************************************************************)
\* The state after one statement of the call in progress; the call's record
\* is written when it returns or throws.
StepCommit(r) ==
  IF r.w.ub
    THEN /\ frame' = Idle
         /\ ub' = TRUE
         /\ last' = [NoOp EXCEPT !.res = "ub"]
         /\ start_index_' = 0
         /\ regions' = <<>>
         /\ mem' = <<>>
         /\ size_' = [s \in Slots |-> 0]
         /\ life' = [s \in Lists |-> "dead"]
         /\ deallocated' = <<>>
         /\ destroyed' = <<>>
         /\ UNCHANGED <<req, adaptors>>
    ELSE /\ frame' = IF r.f.pc = "done" THEN Idle ELSE r.f
         /\ last' = IF r.f.pc = "done"
                      THEN [op |-> frame.op, l |-> frame.l, src |-> "",
                            res |-> Result(r.w),
                            new |-> {r.f.new_node} \ {NULL}, bad |-> r.w.bad]
                      ELSE last
         /\ start_index_' = r.w.cur
         /\ regions' = r.w.regs
         /\ mem' = r.w.mem
         /\ size_' = r.w.size
         /\ deallocated' = r.w.dealloc
         /\ destroyed' = r.w.destroy
         /\ UNCHANGED <<ub, life, req, adaptors>>

\* l.insert(it, v) is called; push_back and push_front are the calls with
\* it = end() and it = begin()
BeginInsert(l, it, v, throws) ==
  /\ ~ub /\ frame.pc = "idle" /\ life[l] = "alive"
  /\ it \in Positions(l)
  /\ frame' = [Idle EXCEPT !.pc = "303", !.op = "insert", !.l = l, !.it = it, !.v = v,
                           !.throws = throws]
  /\ UNCHANGED <<ListVars, adaptors>>

\* l.erase(it) is called; pop_back and pop_front are the calls with
\* it = --end() and it = begin()
BeginErase(l, it) ==
  /\ ~ub /\ frame.pc = "idle" /\ life[l] = "alive"
  /\ it \in Positions(l) \ {HeadOf(l)}
  /\ frame' = [Idle EXCEPT !.pc = "282", !.op = "erase", !.l = l, !.it = it]
  /\ UNCHANGED <<ListVars, adaptors>>

InsertNext ==
  /\ ~ub /\ frame.op = "insert"
  /\ StepCommit(InsertStep(World, frame))

EraseNext ==
  /\ ~ub /\ frame.op = "erase"
  /\ StepCommit(EraseStep(World, frame))

NextSteps ==
  \/ frame.pc = "idle" /\ Construct("a")
  \/ \E it \in DOMAIN mem, v \in Values, t \in BOOLEAN : BeginInsert("a", it, v, t)
  \/ \E it \in DOMAIN mem : BeginErase("a", it)
  \/ InsertNext
  \/ EraseNext
  \/ frame.pc = "idle" /\ Destruct("a")

SpecSteps == Init /\ [][NextSteps]_vars

(***************************************************************************)
(* The arena used directly and through its adaptor StackAllocator<Node, N>.*)
(***************************************************************************)
\* Element counts handed to the adaptor: small ones, and the two around
\* SizeT / sizeof(Node), where count * sizeof(T) comes near SizeT and wraps
ElemCounts == {1, MaxNodes, SizeT \div NodeSize, (SizeT \div NodeSize) + 1}

\* StackAllocator<Node, N>::allocate(count)
AdaptorAllocate(count) ==
  /\ Len(regions) < MaxRegions
  /\ LET r == AllocatorAllocate(start_index_, count)
     IN /\ start_index_' = r.cursor
        /\ regions' = IF r.ok
                        THEN Append(regions, [start |-> r.ptr,
                                              size |-> (count * NodeSize) % SizeT,
                                              alignment |-> NodeAlign])
                        ELSE regions
        /\ req' = [called |-> TRUE, count |-> (count * NodeSize) % SizeT,
                   alignment |-> NodeAlign, ok |-> r.ok, ptr |-> r.ptr,
                   pre |-> start_index_, prevFailed |-> req.called /\ ~req.ok,
                   prevCount |-> req.count, via |-> "adaptor", elems |-> count]
  /\ UNCHANGED <<mem, size_, life, deallocated, destroyed, ub, last, adaptors, frame>>

\* StackAllocator<Node, N>::deallocate(ptr, count), once for a region returned
AdaptorDeallocate(i) ==
  /\ i \in 1..Len(regions)
  /\ Count(deallocated, regions[i].start) = 0
  /\ deallocated' = Inc(deallocated, regions[i].start)
  /\ req' = [NoReq EXCEPT !.via = "deallocate", !.ptr = regions[i].start,
                          !.pre = start_index_]
  /\ UNCHANGED <<start_index_, regions, mem, size_, life, destroyed, ub, last,
                 adaptors, frame>>

NextAllocator ==
  \/ \E count \in Counts, alignment \in Alignments : Allocate(count, alignment)
  \/ \E count \in ElemCounts : AdaptorAllocate(count)
  \/ \E i \in 1..MaxRegions : AdaptorDeallocate(i)

SpecAllocator == Init /\ [][NextAllocator]_vars

(***************************************************************************)
(* Vocabulary of the properties.                                           *)
(***************************************************************************)
InsertOps == {"push_back", "push_front", "insert"}
CtorOps == {"List(n)", "List(n,v)", "List(copy)"}
Errors == {"OutOfCapacity", "CtorError"}

Range(s) == {s[i] : i \in 1..Len(s)}

Reverse(s) == [i \in 1..Len(s) |-> s[Len(s) + 1 - i]]

Alive == {l \in Lists : life[l] = "alive"}

\* The cursor a request would reach in unbounded arithmetic
MathEnd(cursor, count, alignment) ==
  cursor + count + ((alignment - ((cursor + count) % alignment)) % alignment)

\* Every node of l's ring is live and agrees with both neighbours, and the
\* ring closes on the sentinel.
RingWellFormed(m, l) ==
  /\ FwdClosed(m, l)
  /\ \A x \in Range(Fwd(m, l)) \cup {HeadOf(l)} :
       /\ m[x].next \in DOMAIN m /\ m[m[x].next].prev = x
       /\ m[x].prev \in DOMAIN m /\ m[m[x].prev].next = x

\* The addresses destroy / deallocate were called on in the step
DestroyedInStep == {x \in DOMAIN destroyed' : Count(destroyed', x) > Count(destroyed, x)}
DeallocatedInStep ==
  {x \in DOMAIN deallocated' : Count(deallocated', x) > Count(deallocated, x)}

(***************************************************************************)
(* C1.  After a copy assignment l = o (l and o two lists) that completes,  *)
(* l holds o's elements in o's order and o's size, o is unchanged, and the *)
(* nodes the temporary destroys are exactly l's old nodes.                 *)
(***************************************************************************)
C1_AssignCopies ==
  [][ (last'.op = "assign" /\ last'.res = "ok" /\ last'.l # last'.src) =>
        LET l == last'.l
            o == last'.src
        IN /\ FwdClosed(mem', l)
           /\ Content(mem', l) = Content(mem, o)
           /\ size_'[l] = size_[o]
           /\ Content(mem', o) = Content(mem, o)
           /\ Fwd(mem', o) = Fwd(mem, o)
           /\ size_'[o] = size_[o]
           /\ DestroyedInStep = Range(Fwd(mem, l))
           /\ DeallocatedInStep = Range(Fwd(mem, l)) ]_vars

(***************************************************************************)
(* C2.  In every state reached by completed list operations, the sentinel  *)
(* and the payload nodes of every list form one closed ring: each node X   *)
(* has X.next.prev = X and X.prev.next = X, and an empty list's sentinel   *)
(* points to itself both ways.                                             *)
(***************************************************************************)
C2_RingInvariant ==
  ~ub => \A l \in Alive :
           /\ RingWellFormed(mem, l)
           /\ size_[l] = 0 => /\ mem[HeadOf(l)].next = HeadOf(l)
                              /\ mem[HeadOf(l)].prev = HeadOf(l)

(***************************************************************************)
(* C3.  For every list, the number of forward steps from begin() to end()  *)
(* equals size(), and the reverse sequence is the forward sequence         *)
(* reversed.                                                               *)
(***************************************************************************)
C3_StepsEqualSize ==
  ~ub => \A l \in Alive :
           /\ FwdClosed(mem, l)
           /\ Len(Fwd(mem, l)) = size_[l]
           /\ Rev(mem, l) = Reverse(Fwd(mem, l))

(***************************************************************************)
(* C4.  A single insert / push_back / push_front that fails, by            *)
(* OutOfCapacity or by a throwing payload constructor, leaves every link   *)
(* and every size as before the call; in the constructor case the node     *)
(* just allocated is deallocated exactly once, is never destroyed and is   *)
(* never linked.                                                           *)
(***************************************************************************)
C4_FailedInsertChangesNothing ==
  [][ (last'.op \in InsertOps /\ last'.res \in Errors) =>
        /\ mem' = mem
        /\ size_' = size_
        /\ life' = life
        /\ DestroyedInStep = {}
        /\ last'.res = "OutOfCapacity" =>
             /\ DeallocatedInStep = {}
             /\ last'.new = {}
             /\ start_index_' = start_index_
        /\ last'.res = "CtorError" =>
             /\ last'.new = {last'.bad}
             /\ DeallocatedInStep = {last'.bad}
             /\ Count(deallocated', last'.bad) = 1
             /\ last'.bad \notin DOMAIN mem'
             /\ \A x \in DOMAIN mem' :
                  mem'[x].next # last'.bad /\ mem'[x].prev # last'.bad ]_vars

\* a push onto a list that holds an element fails in T's constructor
C4_Witness ==
  /\ last.op \in InsertOps
  /\ last.res = "CtorError"
  /\ size_[last.l] > 0

(***************************************************************************)
(* C5.  A copy assignment l = o that fails while copying the k-th element  *)
(* leaves l and o (links, sizes, content) as before the call, and each of  *)
(* the k-1 nodes already built in the temporary is destroyed and           *)
(* deallocated exactly once.                                               *)
(***************************************************************************)
C5_FailedAssignChangesNothing ==
  [][ (last'.op = "assign" /\ last'.res \in Errors) =>
        /\ mem' = mem
        /\ size_' = size_
        /\ life' = life
        /\ DestroyedInStep = last'.new \ {last'.bad}
        /\ DeallocatedInStep = last'.new
        /\ \A x \in last'.new :
             /\ Count(deallocated', x) = 1
             /\ Count(destroyed', x) = IF x = last'.bad THEN 0 ELSE 1 ]_vars

\* the copy failed at an element after the first
C5_Witness ==
  /\ last.op = "assign"
  /\ last.res \in Errors
  /\ last.new \ {last.bad} # {}

(***************************************************************************)
(* C6.  When a sized constructor or the copy constructor fails at the k-th *)
(* element, each of the k-1 nodes built before is destroyed and            *)
(* deallocated exactly once, the handler's Destroy and the destructor that *)
(* follows counted together; no node stays and no list object results.     *)
(***************************************************************************)
C6_FailedCtorReleasesAll ==
  (last.op \in CtorOps /\ last.res \in Errors) =>
    /\ \A x \in last.new :
         /\ Count(deallocated, x) = 1
         /\ Count(destroyed, x) = IF x = last.bad THEN 0 ELSE 1
         /\ x \notin DOMAIN mem
    /\ Count(deallocated, HeadOf(last.l)) = 0
    /\ Count(destroyed, HeadOf(last.l)) = 0
    /\ HeadOf(last.l) \notin DOMAIN mem
    /\ life[last.l] = "unborn"

\* a constructor failed at an element after the first
C6_Witness ==
  /\ last.op \in CtorOps
  /\ last.res \in Errors
  /\ last.new \ {last.bad} # {}


(***************************************************************************)
(* C7.  For an arena of capacity N and any sequence of allocate calls, the *)
(* cursor never exceeds N, and every region returned lies within [0, N)    *)
(* and overlaps no region returned earlier.                                *)
(***************************************************************************)
C7_RegionsInBoundsDisjoint ==
  /\ start_index_ <= N
  /\ \A i \in 1..Len(regions) :
       /\ regions[i].start >= 0
       /\ regions[i].start + regions[i].size <= N
       /\ \A j \in 1..(i - 1) :
            \/ regions[j].start + regions[j].size <= regions[i].start
            \/ regions[i].start + regions[i].size <= regions[j].start

(***************************************************************************)
(* C8.  The start offset of every region allocate returns, for any size    *)
(* >= 1 and any power-of-two alignment, is a multiple of the alignment     *)
(* asked for.                                                              *)
(***************************************************************************)
C8_StartAligned ==
  \A i \in 1..Len(regions) : regions[i].start % regions[i].alignment = 0

(***************************************************************************)
(* C9.  An allocate that would exceed the capacity fails and leaves the    *)
(* cursor at its value before the call; an allocate with a smaller request *)
(* that follows a failed one succeeds whenever the request and its padding *)
(* fit, i.e. the bytes consumed after it do not exceed N.                  *)
(***************************************************************************)
C9_FailKeepsCursorRetryFits ==
  req.called =>
    /\ MathEnd(req.pre, req.count, req.alignment) > N
         => ~req.ok /\ start_index_ = req.pre
    /\ ( /\ req.prevFailed
         /\ req.count < req.prevCount
         /\ MathEnd(req.pre, req.count, req.alignment) <= N )
         => req.ok

(***************************************************************************)
(* C10.  With a capacity of exactly MaxNodes nodes (N = MaxNodes *         *)
(* NodeSize), the first MaxNodes inserts succeed and the next one fails    *)
(* with OutOfCapacity, the list still reporting MaxNodes elements.         *)
(***************************************************************************)
C10_ExactCapacityHoldsAllNodes ==
  ( /\ life["a"] = "alive"
    /\ deallocated = <<>>
    /\ last.op \in InsertOps
    /\ last.res = "OutOfCapacity" )
    => /\ size_["a"] = MaxNodes
       /\ Len(Fwd(mem, "a")) = MaxNodes

(***************************************************************************)
(* C11.  Every node a list allocates is deallocated exactly once, and      *)
(* destroyed exactly once if its payload was constructed: no node is       *)
(* released twice, no sentinel is ever passed to destroy or deallocate,    *)
(* and once every list is destroyed no allocated node is left unreleased.  *)
(***************************************************************************)
C11_EveryNodeReleasedOnce ==
  ~ub =>
    /\ \A x \in DOMAIN deallocated : x \notin Heads /\ deallocated[x] = 1
    /\ \A x \in DOMAIN destroyed : x \notin Heads /\ destroyed[x] = 1
    /\ (\A l \in Lists : life[l] = "dead") =>
         \A i \in 1..Len(regions) : Count(deallocated, regions[i].start) = 1

(***************************************************************************)
(* C12.  The list refines a sequence.  A new list is empty; a push_back    *)
(* that succeeds appends its value, a push_front prepends it, an insert    *)
(* places it just before the element at the position (at the end for       *)
(* end()); pop_back, pop_front and erase remove exactly the last, the      *)
(* first and the designated element; the other elements keep their values  *)
(* and order, and size() is the length of the sequence.                    *)
(***************************************************************************)
InsertAt(s, i, v) == SubSeq(s, 1, i - 1) \o <<v>> \o SubSeq(s, i, Len(s))

RemoveAt(s, i) == SubSeq(s, 1, i - 1) \o SubSeq(s, i + 1, Len(s))

\* The iterator to the i-th element of l, end() past the last
IterAt(l, i) == IF i <= Len(Fwd(mem, l)) THEN Fwd(mem, l)[i] ELSE HeadOf(l)

C12_RefinesSequence ==
  [][\A l \in Lists :
       LET s == Content(mem, l)
           t == Content(mem', l)
           ok(op) == last'.op = op /\ last'.l = l /\ last'.res = "ok"
       IN /\ (ok("List") /\ Construct(l)) => t = <<>>
          /\ \A v \in Values :
               /\ (ok("push_back") /\ PushBack(l, v, FALSE)) => t = Append(s, v)
               /\ (ok("push_front") /\ PushFront(l, v, FALSE)) => t = <<v>> \o s
               /\ \A i \in 1..(Len(s) + 1) :
                    (ok("insert") /\ Insert(l, IterAt(l, i), v, FALSE))
                      => t = InsertAt(s, i, v)
          /\ (ok("pop_back") /\ PopBack(l)) => t = SubSeq(s, 1, Len(s) - 1)
          /\ (ok("pop_front") /\ PopFront(l)) => t = Tail(s)
          /\ \A i \in 1..Len(s) :
               (ok("erase") /\ EraseAt(l, IterAt(l, i))) => t = RemoveAt(s, i)
          /\ (~ub' /\ life'[l] = "alive") => size_'[l] = Len(t)
    ]_vars

\* An insert before the second of two elements has put its value between them.
C12_Witness ==
  /\ last.op = "insert" /\ last.res = "ok" /\ last.l = "a"
  /\ Len(Fwd(mem, "a")) = 3
  /\ Fwd(mem, "a")[2] \in last.new
  /\ Content(mem, "a")[2] # Content(mem, "a")[1]

(***************************************************************************)
(* C13.  A copy-constructed list has the other list's elements in the same *)
(* order and the same size, in nodes of its own allocated by the copy; no  *)
(* payload node belongs to two lists, and an insert, erase, push or pop on *)
(* one list leaves the other list's nodes, elements and size as they were. *)
(***************************************************************************)
ElementOpNames == InsertOps \cup {"pop_back", "pop_front", "erase"}

C13_CopyIsIndependent ==
  [][/\ (last'.op = "List(copy)" /\ last'.res = "ok") =>
          LET l == last'.l
              o == last'.src
          IN /\ Content(mem', l) = Content(mem, o)
             /\ size_'[l] = size_[o]
             /\ Range(Fwd(mem', l)) = last'.new
             /\ RingWellFormed(mem', l)
             /\ Fwd(mem', o) = Fwd(mem, o)
             /\ Content(mem', o) = Content(mem, o)
             /\ size_'[o] = size_[o]
     /\ ~ub' =>
          \A l \in Lists : \A o \in Lists \ {l} :
            Range(Fwd(mem', l)) \cap Range(Fwd(mem', o)) = {}
     /\ last'.op \in ElementOpNames =>
          \A o \in Lists \ {last'.l} :
            /\ Fwd(mem', o) = Fwd(mem, o)
            /\ Rev(mem', o) = Rev(mem, o)
            /\ Content(mem', o) = Content(mem, o)
            /\ size_'[o] = size_[o]
    ]_vars

\* A non-empty list has just been copied into a list that holds its own node.
C13_Witness ==
  /\ last.op = "List(copy)" /\ last.res = "ok"
  /\ Content(mem, last.l) # <<>>
  /\ Content(mem, last.l) = Content(mem, last.src)
  /\ Fwd(mem, last.l) # Fwd(mem, last.src)

(***************************************************************************)
(* C14.  Two adaptors that reference arenas compare equal with ==, and     *)
(* not unequal with !=, exactly when they reference the same arena,        *)
(* whatever their element types: an adaptor converted from another one     *)
(* compares equal to it, adaptors over different arenas compare unequal.   *)
(***************************************************************************)
C14_EqualIffSameArena ==
  \A x \in AdaptorNames, y \in AdaptorNames :
    (adaptors[x].arena \in Arenas /\ adaptors[y].arena \in Arenas) =>
      /\ AllocEq(adaptors[x].obj, adaptors[y].obj) <=> adaptors[x].arena = adaptors[y].arena
      /\ AllocNe(adaptors[x].obj, adaptors[y].obj) <=> adaptors[x].arena # adaptors[y].arena

\* An adaptor converted to another element type compares equal to one over
\* the same arena, and a third adaptor over another arena compares unequal.
C14_Witness ==
  \E x \in AdaptorNames, y \in AdaptorNames, z \in AdaptorNames :
    /\ adaptors[x].via = "conversion" /\ adaptors[y].via = "storage"
    /\ adaptors[z].via = "storage"
    /\ adaptors[x].obj.T # adaptors[y].obj.T
    /\ adaptors[x].arena = adaptors[y].arena
    /\ adaptors[z].arena # adaptors[y].arena
    /\ AllocEq(adaptors[x].obj, adaptors[y].obj)
    /\ AllocNe(adaptors[z].obj, adaptors[y].obj)

(***************************************************************************)
(* C15.  At every step of insert and erase, every payload node that can be *)
(* reached from a list's sentinel through next and prev links is storage   *)
(* holding a constructed payload: insert constructs before it writes a     *)
(* link, erase bypasses the node in both directions before it destroys     *)
(* and deallocates it.                                                     *)
(***************************************************************************)
RECURSIVE Linked(_, _)
Linked(m, S) ==
  LET T == S \cup {m[x].next : x \in S \cap DOMAIN m}
             \cup {m[x].prev : x \in S \cap DOMAIN m}
  IN IF T = S THEN S ELSE Linked(m, T)

Constructed(x) == x \in DOMAIN mem /\ Count(destroyed, x) = 0

C15_LinkedNodesConstructed ==
  ~ub =>
    /\ \A l \in Alive :
         \A x \in Linked(mem, {HeadOf(l)}) \ {HeadOf(l)} : Constructed(x)
    /\ frame.pc \in {"314", "315", "316", "317", "318"} => Constructed(frame.new_node)
    /\ frame.pc \in {"286", "288"} =>
         \A l \in Alive : frame.it \notin Linked(mem, {HeadOf(l)})

\* An erase in the middle of a list has bypassed the node and destroyed its
\* payload, and has not deallocated it yet.
C15_Witness ==
  /\ frame.pc = "286"
  /\ frame.it \in DOMAIN mem /\ Count(destroyed, frame.it) = 1
  /\ Len(Fwd(mem, "a")) = 2
  /\ mem[frame.it].next # HeadOf("a") /\ mem[frame.it].prev # HeadOf("a")

(***************************************************************************)
(* C16.  The adaptor's deallocate leaves the arena as it was, and across   *)
(* allocate and deallocate calls and list operations the arena's cursor    *)
(* never decreases; an allocate that fails leaves the cursor at exactly    *)
(* its value before the call.                                              *)
(***************************************************************************)
C16_CursorNeverDecreases ==
  [][~ub' =>
       /\ start_index_' >= start_index_
       /\ (req'.via = "deallocate" /\ req' # req) =>
            start_index_' = start_index_ /\ regions' = regions
       /\ (req' # req /\ req'.called /\ ~req'.ok) => start_index_' = start_index_
    ]_vars

(***************************************************************************)
(* C17.  With w-bit sizes, an allocate through the arena or the adaptor    *)
(* whose request (count * sizeof(T) bytes for the adaptor) with its        *)
(* padding is larger than the room left fails and leaves the cursor        *)
(* unchanged, also when count * sizeof(T) or cursor + size wraps modulo    *)
(* 2^w; no call moves the cursor backwards or returns a region that is     *)
(* not inside the buffer.                                                  *)
(***************************************************************************)
Requested == IF req.via = "adaptor" THEN req.elems * NodeSize ELSE req.count

C17_OversizedRequestFails ==
  req.called =>
    /\ MathEnd(req.pre, Requested, req.alignment) > N =>
         ~req.ok /\ start_index_ = req.pre
    /\ start_index_ >= req.pre
    /\ req.ok => req.ptr >= 0 /\ req.ptr + Requested <= N

(***************************************************************************)
(* C18.  A self-assignment l = l that completes without error leaves l     *)
(* with the same elements in the same order and the same size, in a well   *)
(* formed ring of nodes allocated by the call, and each node l held before *)
(* the call is destroyed and deallocated exactly once, by the temporary.   *)
(***************************************************************************)
C18_SelfAssignIsIdentity ==
  [][ (last'.op = "assign" /\ last'.src = last'.l /\ last'.res = "ok") =>
        LET l == last'.l
            old == Range(Fwd(mem, l))
        IN /\ Content(mem', l) = Content(mem, l)
           /\ size_'[l] = size_[l]
           /\ RingWellFormed(mem', l)
           /\ Len(Fwd(mem', l)) = size_'[l]
           /\ Range(Fwd(mem', l)) = last'.new
           /\ DestroyedInStep = old
           /\ DeallocatedInStep = old
           /\ \A x \in old : Count(destroyed', x) = 1 /\ Count(deallocated', x) = 1
           /\ \A o \in Lists \ {l} : Fwd(mem', o) = Fwd(mem, o) /\ size_'[o] = size_[o]
    ]_vars

\* A list with an element has been assigned to itself.
C18_Witness ==
  /\ last.op = "assign" /\ last.src = last.l /\ last.res = "ok"
  /\ Content(mem, last.l) # <<>>
  /\ destroyed # <<>>

====
